---- MODULE Spec2Model ----
(***************************************************************************)
(* Model of the gobuy-backend HTTP API (src/server.js): an Express router  *)
(* in front of a hosted record store (tables products, cart_items) and an  *)
(* identity provider.  Every handler is an async function; it is modelled  *)
(* as a sequence of steps, one per awaited external call, the synchronous  *)
(* code that follows a call being part of the step that makes the call's   *)
(* successor.  A step of a store call picks the call's outcome: "ok", a    *)
(* returned error object, or a thrown exception.                           *)
(***************************************************************************)
EXTENDS Integers, FiniteSets, Sequences, TLC

(* ------------------------------ bounds --------------------------------- *)
MaxProducts == 1     \* product rows ever inserted (ids 1..MaxProducts)
MaxCartItems == 2    \* cart rows ever inserted (ids 1..MaxCartItems)
MaxStock == 2        \* largest stock_quantity a request body carries
MaxNegative == 1     \* a cart row's quantity is kept >= -MaxNegative
MaxRefresh == 1      \* times one cart row's added_at is refreshed
MaxRaceItems == 3    \* cart rows ever inserted when requests interleave

Users == {"u1", "u2"}
Slots == {1, 2}

\* bearer tokens: none, one the provider rejects, one the provider answers
\* with no user, and one valid token per user
Tokens == {"none", "bad", "nouser"} \cup Users

\* outcome of one awaited external call
Outcomes == {"ok", "error", "throw"}

Guarded == {"PostPosts", "GetMyProducts", "PutMyProducts", "DeleteMyProducts",
            "GetSellerStats", "GetCart", "PostCart", "PutCart",
            "DeleteCartItem", "DeleteCart", "GetSession", "GetProfile",
            "PutProfile"}
Unguarded == {"GetPosts"}
Ops == Guarded \cup Unguarded
\* the handlers that write products or cart_items
DataOps == {"PostPosts", "PutMyProducts", "DeleteMyProducts", "PostCart",
            "PutCart", "DeleteCartItem", "DeleteCart"}

VARIABLES products, cart, nextProductId, nextCartId, req
vars == <<products, cart, nextProductId, nextCartId, req>>

(* ------------------------------ helpers -------------------------------- *)
\* a JavaScript value that may be undefined: {} is undefined, {v} is v
Undefined == {}
Val(s) == CHOOSE v \in s : TRUE

NoBody == [product_id |-> 0, quantity |-> Undefined, seller_id |-> Undefined,
           stock_quantity |-> Undefined, is_active |-> Undefined,
           required |-> FALSE]

IdleReq == [op |-> "idle", pc |-> "idle", token |-> "none", user |-> "",
            auth |-> "",
            status |-> 0, calls |-> 0, writes |-> 0, faulted |-> FALSE,
            id |-> 0, body |-> NoBody, quantity |-> 0,
            product |-> {}, existing |-> {},
            pre |-> [products |-> {}, cart |-> {}]]

Running(r) == r.pc \notin {"idle", "done", "escaped"}
InFlight(op) == Cardinality({t \in Slots : req[t].op = op /\ Running(req[t])})

\* res.status(code).json(...)
Respond(r, code) == [r EXCEPT !.pc = "done", !.status = code]
\* one more call on the record store
Called(r) == [r EXCEPT !.calls = @ + 1]
Faulted(r, out) == [r EXCEPT !.calls = @ + 1, !.faulted = TRUE]

\* The values a body field takes in a step whose store call ends with `out`:
\* a failed call reads nothing of the body after the checks that precede it,
\* so one body stands for all of them.
Field(values, out) == IF out = "ok" THEN values ELSE {Undefined}
FieldOr(values, out, v) == IF out = "ok" THEN values ELSE {v}

StockInputs == {Undefined} \cup {{n} : n \in 0..MaxStock}
ActiveInputs == {Undefined, {TRUE}, {FALSE}}
SellerInputs == {Undefined} \cup {{u} : u \in Users}

\* parseInt(stock_quantity) on the integers a body carries here
ParseInt(x) == x

Init ==
  /\ products = {}
  /\ cart = {}
  /\ nextProductId = 1
  /\ nextCartId = 1
  /\ req = [s \in Slots |-> IdleReq]

(* --------------------- request arrival and auth guard ------------------ *)
\* the handler starts: reads the Authorization header, and answers 401
\* at once when a guarded handler finds no token
ArriveWithin(s, ops, tokens, maxItems) ==
  /\ ~Running(req[s])
  /\ \E op \in ops, token \in tokens :
       /\ op = "PostPosts" => nextProductId + InFlight("PostPosts") <= MaxProducts
       /\ op = "PostCart" => nextCartId + InFlight("PostCart") <= maxItems
       /\ op \in Unguarded => token = "none"
       /\ LET r == [IdleReq EXCEPT !.op = op, !.token = token,
                                   !.pre = [products |-> products, cart |-> cart]]
          IN req' = [req EXCEPT ![s] =
                       IF op \in Unguarded THEN [r EXCEPT !.pc = "run"]
                       ELSE IF token = "none"
                         THEN Respond([r EXCEPT !.auth = "missing"], 401)
                       ELSE [r EXCEPT !.pc = "guard"]]
  /\ UNCHANGED <<products, cart, nextProductId, nextCartId>>

Arrive(s, ops, tokens) == ArriveWithin(s, ops, tokens, MaxCartItems)

\* a request for a handler that writes the store, with any token
Receive(s) == Arrive(s, DataOps, Tokens)
\* a request for any handler modelled
ReceiveAny(s) == Arrive(s, Ops, Tokens)

\* what supabase.auth.getUser(token) answers: the call throws, returns an
\* error (always for a token it does not know), returns no user, or returns
\* the token's user
ProviderAnswer(token, out) ==
  IF out = "throw" THEN "throw"
  ELSE IF out = "error" \/ token = "bad" THEN "error"
  ELSE IF token \notin Users THEN "nouser"
  ELSE "ok"

\* the guard with the !user test left out
GuardResult_NoUserTest(r, out) ==
  LET answer == ProviderAnswer(r.token, out)
      a == [r EXCEPT !.auth = answer]
  IN IF answer = "throw"
       THEN IF r.op = "PostPosts"
              THEN [a EXCEPT !.pc = "escaped"]
              ELSE Respond(a, 500)
     ELSE IF answer = "error"
       THEN Respond(a, 401)
     ELSE IF r.op = "GetSession"
       THEN Respond([a EXCEPT !.user = r.token], 200)
     ELSE [a EXCEPT !.user = r.token, !.pc = "run"]

\* the check that follows getUser: 401 on authError or no user; an exception
\* goes to the handler's catch (500), except in POST /api/posts
GuardResult(r, out) ==
  LET answer == ProviderAnswer(r.token, out)
      a == [r EXCEPT !.auth = answer]
  IN IF answer = "throw"
       THEN IF r.op = "PostPosts"
              THEN [a EXCEPT !.pc = "escaped"]   \* this guard is outside try
              ELSE Respond(a, 500)
     ELSE IF answer = "error" \/ answer = "nouser"
       THEN Respond(a, 401)
     ELSE IF r.op = "GetSession"
       THEN Respond([a EXCEPT !.user = r.token], 200)
     ELSE [a EXCEPT !.user = r.token, !.pc = "run"]

Guard(s) ==
  /\ req[s].pc = "guard"
  /\ \E out \in Outcomes : req' = [req EXCEPT ![s] = GuardResult(req[s], out)]
  /\ UNCHANGED <<products, cart, nextProductId, nextCartId>>

(* --------------------------- product handlers -------------------------- *)
\* GET /api/posts, GET /api/my-products, GET /api/seller-stats, GET /api/cart:
\* one select, then the response
SelectResult(r, out) ==
  IF out = "throw" THEN Respond(Faulted(r, out), 500)
  ELSE IF out = "error" THEN Respond(Faulted(r, out), 400)
  ELSE Respond(Called(r), 200)

ReadOnly(s) ==
  /\ req[s].pc = "run"
  /\ req[s].op \in {"GetPosts", "GetMyProducts", "GetSellerStats", "GetCart"}
  /\ \E out \in Outcomes : req' = [req EXCEPT ![s] = SelectResult(req[s], out)]
  /\ UNCHANGED <<products, cart, nextProductId, nextCartId>>

\* seller_id taken from the request body when it carries one
NewProduct_BodySeller(id, user, body) ==
  [id |-> id,
   seller_id |-> IF body.seller_id # Undefined THEN Val(body.seller_id) ELSE user,
   stock_quantity |-> IF body.stock_quantity = Undefined THEN 0
                      ELSE Val(body.stock_quantity),
   is_active |-> IF body.is_active # Undefined THEN Val(body.is_active) ELSE TRUE,
   created_by |-> user]

\* the row POST /api/posts inserts (an insert that returns no row, the
\* handler's "no data returned" 400, is not among the outcomes modelled)
NewProduct(id, user, body) ==
  [id |-> id,
   seller_id |-> user,
   stock_quantity |-> IF body.stock_quantity = Undefined
                        \/ Val(body.stock_quantity) = 0
                      THEN 0 ELSE Val(body.stock_quantity),
   is_active |-> IF body.is_active # Undefined THEN Val(body.is_active) ELSE TRUE,
   created_by |-> user]

PostPostsInsert(s) ==
  /\ req[s].pc = "run" /\ req[s].op = "PostPosts"
  /\ \E out \in Outcomes, required \in BOOLEAN :
     \E seller \in Field(SellerInputs, out), stock \in Field(StockInputs, out),
        active \in Field(ActiveInputs, out) :
       LET body == [NoBody EXCEPT !.required = required, !.seller_id = seller,
                                  !.stock_quantity = stock, !.is_active = active]
           r == [req[s] EXCEPT !.body = body]
       IN IF ~required
            THEN /\ req' = [req EXCEPT ![s] = Respond(r, 400)]
                 /\ UNCHANGED <<products, nextProductId>>
          ELSE IF out = "throw"
            THEN /\ req' = [req EXCEPT ![s] = Respond(Faulted(r, out), 500)]
                 /\ UNCHANGED <<products, nextProductId>>
          ELSE IF out = "error"
            THEN /\ req' = [req EXCEPT ![s] = Respond(Faulted(r, out), 400)]
                 /\ UNCHANGED <<products, nextProductId>>
          ELSE /\ products' = products \cup {NewProduct(nextProductId, r.user, body)}
               /\ nextProductId' = nextProductId + 1
               /\ req' = [req EXCEPT ![s] =
                            Respond([Called(r) EXCEPT !.writes = @ + 1,
                                                      !.id = nextProductId], 201)]
  /\ UNCHANGED <<cart, nextCartId>>

\* .eq('id', id).single() on products: the row, or an error unless exactly one
ProductById(id) == {p \in products : p.id = id}

\* the ownership comparison left out
OwnedBy_Anyone(p, user) == TRUE

\* existingProduct.seller_id !== user.id, negated
OwnedBy(p, user) == p.seller_id = user

\* the ownership read shared by PUT and DELETE /api/my-products/:id
CheckOwner(s) ==
  /\ req[s].pc = "run" /\ req[s].op \in {"PutMyProducts", "DeleteMyProducts"}
  /\ \E id \in 1..MaxProducts, out \in Outcomes :
       LET r == [req[s] EXCEPT !.id = id]
           found == ProductById(id)
       IN req' = [req EXCEPT ![s] =
            IF out = "throw" THEN Respond(Faulted(r, out), 500)
            ELSE IF out = "error" THEN Respond(Faulted(r, out), 404)
            ELSE IF Cardinality(found) # 1 THEN Respond(Called(r), 404)
            ELSE IF ~OwnedBy(Val(found), r.user) THEN Respond(Called(r), 403)
            ELSE [Called(r) EXCEPT !.product = found,
                    !.pc = IF r.op = "PutMyProducts" THEN "update" ELSE "cartcheck"]]
  /\ UNCHANGED <<products, cart, nextProductId, nextCartId>>

\* a blind merge: a field the body omits is written with its default
ApplyUpdates_Blind(p, body) ==
  [p EXCEPT !.stock_quantity = IF body.stock_quantity # Undefined
                               THEN ParseInt(Val(body.stock_quantity)) ELSE 0,
            !.is_active = IF body.is_active # Undefined
                          THEN Val(body.is_active) ELSE TRUE]

\* the updates object of PUT /api/my-products/:id applied to one row
\* (updated_at, which every update refreshes, is not part of the rows here)
ApplyUpdates(p, body) ==
  [p EXCEPT !.stock_quantity = IF body.stock_quantity # Undefined
                               THEN ParseInt(Val(body.stock_quantity)) ELSE @,
            !.is_active = IF body.is_active # Undefined
                          THEN Val(body.is_active) ELSE @]

\* the rows the PUT's write reaches: .eq('id', id).eq('seller_id', user.id)
UpdateFilter(r) == {p \in products : p.id = r.id /\ p.seller_id = r.user}

PutMyProductsUpdate(s) ==
  /\ req[s].pc = "update" /\ req[s].op = "PutMyProducts"
  /\ \E out \in Outcomes :
     \E stock \in Field(StockInputs, out), active \in Field(ActiveInputs, out) :
       LET body == [NoBody EXCEPT !.stock_quantity = stock, !.is_active = active]
           r == [req[s] EXCEPT !.body = body]
           hit == UpdateFilter(r)
       IN IF out = "throw"
            THEN /\ req' = [req EXCEPT ![s] = Respond(Faulted(r, out), 500)]
                 /\ UNCHANGED products
          ELSE IF out = "error"
            THEN /\ req' = [req EXCEPT ![s] = Respond(Faulted(r, out), 400)]
                 /\ UNCHANGED products
          ELSE /\ products' = (products \ hit) \cup {ApplyUpdates(p, body) : p \in hit}
               /\ req' = [req EXCEPT ![s] =
                            IF hit = {} THEN Respond(Called(r), 404)
                            ELSE Respond([Called(r) EXCEPT !.writes = @ + 1], 200)]
  /\ UNCHANGED <<cart, nextProductId, nextCartId>>

\* the dependency check never refusing
InCarts_Never(cartItems) == FALSE

\* cartItems && cartItems.length > 0
InCarts(cartItems) == cartItems # {}

\* the cart dependency check of DELETE /api/my-products/:id
CartCheck(s) ==
  /\ req[s].pc = "cartcheck" /\ req[s].op = "DeleteMyProducts"
  /\ \E out \in Outcomes :
       LET r == req[s]
           cartItems == {c \in cart : c.product_id = r.id}
       IN req' = [req EXCEPT ![s] =
            IF out = "throw" THEN Respond(Faulted(r, out), 500)
            ELSE IF out = "error" THEN Respond(Faulted(r, out), 400)
            ELSE IF InCarts(cartItems) THEN Respond(Called(r), 400)
            ELSE [Called(r) EXCEPT !.pc = "delete"]]
  /\ UNCHANGED <<products, cart, nextProductId, nextCartId>>

DeleteMyProductsDelete(s) ==
  /\ req[s].pc = "delete" /\ req[s].op = "DeleteMyProducts"
  /\ \E out \in Outcomes :
       LET r == req[s]
           hit == UpdateFilter(r)
       IN IF out = "throw"
            THEN /\ req' = [req EXCEPT ![s] = Respond(Faulted(r, out), 500)]
                 /\ UNCHANGED products
          ELSE IF out = "error"
            THEN /\ req' = [req EXCEPT ![s] = Respond(Faulted(r, out), 400)]
                 /\ UNCHANGED products
          ELSE /\ products' = products \ hit
               /\ req' = [req EXCEPT ![s] =
                            Respond([Called(r) EXCEPT
                                       !.writes = IF hit = {} THEN @ ELSE @ + 1], 200)]
  /\ UNCHANGED <<cart, nextProductId, nextCartId>>

(* ----------------------------- cart handlers --------------------------- *)
\* const { product_id, quantity = 1 } = req.body
DefaultQuantity(q) == IF q = Undefined THEN 1 ELSE Val(q)

QuantityInputs == {Undefined} \cup {{q} : q \in -MaxNegative..MaxStock}

\* .eq('user_id', u).eq('product_id', p) on cart_items
CartRowsOf(u, p) == {c \in cart : c.user_id = u /\ c.product_id = p}
\* the ownership filter left out of the lookup
CartItemOf_AnyUser(id, u) == {c \in cart : c.id = id}

\* .eq('id', id).eq('user_id', u) on cart_items
CartItemOf(id, u) == {c \in cart : c.id = id /\ c.user_id = u}

\* the stock comparison left out of the product checks
ProductCheck_NoStock(found, quantity) ==
  IF Cardinality(found) # 1 THEN 404
  ELSE IF ~Val(found).is_active THEN 400
  ELSE 0

\* the stock comparison off by one
ProductCheck_OffByOne(found, quantity) ==
  IF Cardinality(found) # 1 THEN 404
  ELSE IF ~Val(found).is_active THEN 400
  ELSE IF Val(found).stock_quantity + 1 < quantity THEN 400
  ELSE 0

\* the checks on the product read: 404 when .single() found no one row, 400
\* when it is inactive or short of stock, 0 to go on
ProductCheck(found, quantity) ==
  IF Cardinality(found) # 1 THEN 404
  ELSE IF ~Val(found).is_active THEN 400
  ELSE IF Val(found).stock_quantity < quantity THEN 400
  ELSE 0

\* POST /api/cart up to its first store call: body checks, then the product
\* read and the checks on the product
PostCartReadProduct(s) ==
  /\ req[s].pc = "run" /\ req[s].op = "PostCart"
  /\ \E product_id \in 0..MaxProducts, qty \in QuantityInputs, out \in Outcomes :
       LET quantity == DefaultQuantity(qty)
           body == [NoBody EXCEPT !.product_id = product_id, !.quantity = qty]
           r == [req[s] EXCEPT !.body = body, !.quantity = quantity, !.id = product_id]
           found == ProductById(product_id)
       IN /\ \A c \in CartRowsOf(r.user, product_id) :
               /\ c.quantity + quantity >= -MaxNegative
               /\ c.added_at < MaxRefresh
          /\ req' = [req EXCEPT ![s] =
               IF product_id = 0 THEN Respond(r, 400)
               ELSE IF out = "throw" THEN Respond(Faulted(r, out), 500)
               ELSE IF out = "error" THEN Respond(Faulted(r, out), 404)
               ELSE IF ProductCheck(found, quantity) # 0
                 THEN Respond(Called(r), ProductCheck(found, quantity))
               ELSE [Called(r) EXCEPT !.product = found, !.pc = "lookup"]]
  /\ UNCHANGED <<products, cart, nextProductId, nextCartId>>

\* the lookup taking the first row found instead of requiring a single one
ExistingItem_First(r, out) ==
  IF out = "ok" /\ CartRowsOf(r.user, r.id) # {}
  THEN {CHOOSE c \in CartRowsOf(r.user, r.id) :
          \A d \in CartRowsOf(r.user, r.id) : c.id <= d.id}
  ELSE {}

\* the existingItem lookup (.single()) and the branch on its result
ExistingItem(r, out) ==
  IF out = "ok" /\ Cardinality(CartRowsOf(r.user, r.id)) = 1
  THEN CartRowsOf(r.user, r.id) ELSE {}

\* const newQuantity = existingItem.quantity + quantity
NewQuantity(existingItem, quantity) == existingItem.quantity + quantity

\* the check of the merged quantity against the stock left out
ExceedsStock_Never(newQuantity, product) == FALSE

\* newQuantity > product.stock_quantity
ExceedsStock(newQuantity, product) == newQuantity > product.stock_quantity

PostCartLookup(s) ==
  /\ req[s].pc = "lookup" /\ req[s].op = "PostCart"
  /\ \E out \in Outcomes :
       LET r == req[s]
           existingItem == ExistingItem(r, out)
           c == IF out = "ok" THEN Called(r) ELSE Faulted(r, out)
       IN req' = [req EXCEPT ![s] =
            IF out = "throw" THEN Respond(c, 500)
            ELSE IF existingItem # {}
              THEN IF ExceedsStock(NewQuantity(Val(existingItem), r.quantity),
                                   Val(r.product))
                     THEN Respond([c EXCEPT !.existing = existingItem], 400)
                     ELSE [c EXCEPT !.existing = existingItem, !.pc = "merge"]
            ELSE [c EXCEPT !.pc = "insert"]]
  /\ UNCHANGED <<products, cart, nextProductId, nextCartId>>

\* update({quantity: newQuantity, added_at: now}).eq('id', existingItem.id)
MergeRow(c, newQuantity) == [c EXCEPT !.quantity = newQuantity,
                                      !.added_at = @ + 1]

PostCartMerge(s) ==
  /\ req[s].pc = "merge" /\ req[s].op = "PostCart"
  /\ \E out \in Outcomes :
       LET r == req[s]
           existingItem == Val(r.existing)
           hit == {c \in cart : c.id = existingItem.id}
       IN IF out = "throw"
            THEN /\ req' = [req EXCEPT ![s] = Respond(Faulted(r, out), 500)]
                 /\ UNCHANGED cart
          ELSE IF out = "error"
            THEN /\ req' = [req EXCEPT ![s] = Respond(Faulted(r, out), 400)]
                 /\ UNCHANGED cart
          ELSE /\ cart' = (cart \ hit) \cup
                            {MergeRow(c, NewQuantity(existingItem, r.quantity)) : c \in hit}
               /\ req' = [req EXCEPT ![s] =
                            Respond([Called(r) EXCEPT
                                       !.writes = IF hit = {} THEN @ ELSE @ + 1], 201)]
  /\ UNCHANGED <<products, nextProductId, nextCartId>>

\* the requested quantity dropped from the inserted row
NewCartItem_One(id, user, product_id, quantity) ==
  [id |-> id, user_id |-> user, product_id |-> product_id,
   quantity |-> 1, added_at |-> 0]

\* an upsert keyed by (user_id, product_id) in place of the insert
NewCartItem_Keyed(id, user, product_id, quantity) ==
  [id |-> product_id, user_id |-> user, product_id |-> product_id,
   quantity |-> quantity, added_at |-> 0]

\* insert({user_id, product_id, quantity})
NewCartItem(id, user, product_id, quantity) ==
  [id |-> id, user_id |-> user, product_id |-> product_id,
   quantity |-> quantity, added_at |-> 0]

PostCartInsert(s) ==
  /\ req[s].pc = "insert" /\ req[s].op = "PostCart"
  /\ \E out \in Outcomes :
       LET r == req[s]
       IN IF out = "throw"
            THEN /\ req' = [req EXCEPT ![s] = Respond(Faulted(r, out), 500)]
                 /\ UNCHANGED <<cart, nextCartId>>
          ELSE IF out = "error"
            THEN /\ req' = [req EXCEPT ![s] = Respond(Faulted(r, out), 400)]
                 /\ UNCHANGED <<cart, nextCartId>>
          ELSE /\ cart' = cart \cup {NewCartItem(nextCartId, r.user, r.id, r.quantity)}
               /\ nextCartId' = nextCartId + 1
               /\ req' = [req EXCEPT ![s] =
                            Respond([Called(r) EXCEPT !.writes = @ + 1], 201)]
  /\ UNCHANGED <<products, nextProductId>>

\* PUT /api/cart/:id: if (!quantity || quantity < 1)
InvalidQuantity(q) == q = Undefined \/ Val(q) = 0 \/ Val(q) < 1

\* the comparison of the new quantity with the stock left out
OverStock_Never(quantity, product) == FALSE

\* quantity > cartItem.products.stock_quantity
OverStock(quantity, product) == quantity > product.stock_quantity

\* PUT and DELETE /api/cart/:id up to the ownership lookup, which joins the
\* row's product
CartItemLookup(s) ==
  /\ req[s].pc = "run" /\ req[s].op \in {"PutCart", "DeleteCartItem"}
  /\ \E id \in 1..MaxCartItems, out \in Outcomes :
     \E qty \in FieldOr(QuantityInputs, out, {1}) :
       LET isPut == req[s].op = "PutCart"
           body == [NoBody EXCEPT !.quantity = IF isPut THEN qty ELSE Undefined]
           r == [req[s] EXCEPT !.id = id, !.body = body,
                               !.quantity = IF isPut /\ qty # Undefined
                                            THEN Val(qty) ELSE 0]
           found == CartItemOf(id, r.user)
           joined == IF Cardinality(found) = 1
                     THEN ProductById(Val(found).product_id) ELSE {}
       IN /\ ~isPut => qty = {1}
          /\ req' = [req EXCEPT ![s] =
               IF isPut /\ InvalidQuantity(qty) THEN Respond(r, 400)
               ELSE IF out = "throw" THEN Respond(Faulted(r, out), 500)
               ELSE IF out = "error" THEN Respond(Faulted(r, out), 404)
               ELSE IF Cardinality(found) # 1 THEN Respond(Called(r), 404)
               ELSE IF ~isPut
                 THEN [Called(r) EXCEPT !.existing = found, !.product = joined,
                                        !.pc = "delete"]
               ELSE IF joined = {} THEN Respond(Called(r), 500)
               ELSE IF OverStock(r.quantity, Val(joined))
                 THEN Respond(Called(r), 400)
               ELSE [Called(r) EXCEPT !.existing = found, !.product = joined,
                                      !.pc = "update"]]
  /\ UNCHANGED <<products, cart, nextProductId, nextCartId>>

\* update({ quantity }).eq('id', cartItemId)
PutCartUpdate(s) ==
  /\ req[s].pc = "update" /\ req[s].op = "PutCart"
  /\ \E out \in Outcomes :
       LET r == req[s]
           hit == {c \in cart : c.id = r.id}
       IN IF out = "throw"
            THEN /\ req' = [req EXCEPT ![s] = Respond(Faulted(r, out), 500)]
                 /\ UNCHANGED cart
          ELSE IF out = "error"
            THEN /\ req' = [req EXCEPT ![s] = Respond(Faulted(r, out), 400)]
                 /\ UNCHANGED cart
          ELSE /\ cart' = (cart \ hit) \cup {[c EXCEPT !.quantity = r.quantity] : c \in hit}
               /\ req' = [req EXCEPT ![s] =
                            Respond([Called(r) EXCEPT
                                       !.writes = IF hit = {} THEN @ ELSE @ + 1], 200)]
  /\ UNCHANGED <<products, nextProductId, nextCartId>>

\* delete().eq('id', cartItemId), then the message built from the joined title
DeleteCartItemDelete(s) ==
  /\ req[s].pc = "delete" /\ req[s].op = "DeleteCartItem"
  /\ \E out \in Outcomes :
       LET r == req[s]
           hit == {c \in cart : c.id = r.id}
       IN IF out = "throw"
            THEN /\ req' = [req EXCEPT ![s] = Respond(Faulted(r, out), 500)]
                 /\ UNCHANGED cart
          ELSE IF out = "error"
            THEN /\ req' = [req EXCEPT ![s] = Respond(Faulted(r, out), 400)]
                 /\ UNCHANGED cart
          ELSE /\ cart' = cart \ hit
               /\ req' = [req EXCEPT ![s] =
                            Respond([Called(r) EXCEPT
                                       !.writes = IF hit = {} THEN @ ELSE @ + 1],
                                    IF r.product = {} THEN 500 ELSE 200)]
  /\ UNCHANGED <<products, nextProductId, nextCartId>>

\* DELETE /api/cart: delete().eq('user_id', user.id)
DeleteCartClear(s) ==
  /\ req[s].pc = "run" /\ req[s].op = "DeleteCart"
  /\ \E out \in Outcomes :
       LET r == req[s]
           hit == {c \in cart : c.user_id = r.user}
       IN IF out = "throw"
            THEN /\ req' = [req EXCEPT ![s] = Respond(Faulted(r, out), 500)]
                 /\ UNCHANGED cart
          ELSE IF out = "error"
            THEN /\ req' = [req EXCEPT ![s] = Respond(Faulted(r, out), 400)]
                 /\ UNCHANGED cart
          ELSE /\ cart' = cart \ hit
               /\ req' = [req EXCEPT ![s] =
                            Respond([Called(r) EXCEPT
                                       !.writes = IF hit = {} THEN @ ELSE @ + 1], 200)]
  /\ UNCHANGED <<products, nextProductId, nextCartId>>

(* ---------------------------- profile handlers ------------------------- *)
\* GET /api/auth/profile: the profile read sits in its own try, every
\* outcome of it leads to the 200 response
GetProfileRead(s) ==
  /\ req[s].pc = "run" /\ req[s].op = "GetProfile"
  /\ \E out \in Outcomes :
       req' = [req EXCEPT ![s] =
                 Respond(IF out = "ok" THEN Called(req[s]) ELSE Faulted(req[s], out), 200)]
  /\ UNCHANGED <<products, cart, nextProductId, nextCartId>>

\* PUT /api/auth/profile: body validation, then the upsert of the profile row
PutProfileUpsert(s) ==
  /\ req[s].pc = "run" /\ req[s].op = "PutProfile"
  /\ \E valid \in BOOLEAN, out \in Outcomes :
       LET r == [req[s] EXCEPT !.body = [NoBody EXCEPT !.required = valid]]
       IN req' = [req EXCEPT ![s] =
            IF ~valid THEN Respond(r, 400)
            ELSE IF out = "throw" THEN Respond(Faulted(r, out), 500)
            ELSE IF out = "error" THEN Respond(Faulted(r, out), 400)
            ELSE [Called(r) EXCEPT !.writes = @ + 1, !.pc = "mirror"]]
  /\ UNCHANGED <<products, cart, nextProductId, nextCartId>>

\* supabase.auth.updateUser in its own try: every outcome leads to 200
PutProfileMirror(s) ==
  /\ req[s].pc = "mirror" /\ req[s].op = "PutProfile"
  /\ req' = [req EXCEPT ![s] = Respond(req[s], 200)]
  /\ UNCHANGED <<products, cart, nextProductId, nextCartId>>

\* the steps of the handlers that write the store
DataStep(s) ==
  \/ Guard(s)
  \/ PostPostsInsert(s)
  \/ CheckOwner(s)
  \/ PutMyProductsUpdate(s)
  \/ CartCheck(s)
  \/ DeleteMyProductsDelete(s)
  \/ PostCartReadProduct(s)
  \/ PostCartLookup(s)
  \/ PostCartMerge(s)
  \/ PostCartInsert(s)
  \/ CartItemLookup(s)
  \/ PutCartUpdate(s)
  \/ DeleteCartItemDelete(s)
  \/ DeleteCartClear(s)

\* the steps of the remaining handlers
OtherStep(s) ==
  \/ ReadOnly(s)
  \/ GetProfileRead(s)
  \/ PutProfileUpsert(s)
  \/ PutProfileMirror(s)

\* requests handled one at a time, each handler running to completion
\* before the next request arrives
Next == Receive(1) \/ DataStep(1)
Spec == Init /\ [][Next]_vars

\* the same, over every handler that starts with the guard or reads the
\* record store (the register, login, magic-link, OAuth and logout handlers
\* call the identity provider only and are left out)
NextAll == ReceiveAny(1) \/ DataStep(1) \/ OtherStep(1)
SpecAll == Init /\ [][NextAll]_vars

\* the handlers whose requests interleave in SpecRace, and their caller
RaceOps == {"PostPosts", "PostCart"}
RaceUsers == {"u1"}

\* a request of that caller, with a valid token, to create a product or to
\* add to the cart
ReceiveAdd(s) == ArriveWithin(s, RaceOps, RaceUsers, MaxRaceItems)

\* a step of one of these handlers
AddStep(s) ==
  \/ Guard(s)
  \/ PostPostsInsert(s)
  \/ PostCartReadProduct(s)
  \/ PostCartLookup(s)
  \/ PostCartMerge(s)
  \/ PostCartInsert(s)

\* requests handled concurrently: every await yields to the event loop, so
\* the steps of the handlers in flight interleave in any order
NextRace == \E s \in Slots : ReceiveAdd(s) \/ AddStep(s)
SpecRace == Init /\ [][NextRace]_vars

(* ------------------------------ properties ----------------------------- *)
Done(r) == r.pc = "done"
\* the store is as it was when the request arrived
StoreAsBefore(r) == products = r.pre.products /\ cart = r.pre.cart
\* the rows of the store before the request
ProductBefore(r, id) == {p \in r.pre.products : p.id = id}
CartRowsBefore(r, u, id) == {c \in r.pre.cart : c.user_id = u /\ c.product_id = id}

\* a PUT or DELETE on /api/my-products/:id of an existing product, by an
\* authenticated caller who is not its seller
NonOwner(r) ==
  /\ r.op \in {"PutMyProducts", "DeleteMyProducts"}
  /\ r.auth = "ok"
  /\ \E p \in ProductBefore(r, r.id) : p.seller_id # r.user

\* C1: a PUT or DELETE on /api/my-products/:id by a caller who is not the
\* product's seller changes no product and no cart row, and is answered 403
\* whenever the store answered the ownership read.
C1_NonOwnerRefused ==
  \A s \in Slots :
    NonOwner(req[s]) =>
      /\ StoreAsBefore(req[s])
      /\ Done(req[s]) /\ ~req[s].faulted => req[s].status = 403

\* a non-owner's PUT was answered 403 while the cart held a row
C1_Witness ==
  \E s \in Slots : /\ NonOwner(req[s]) /\ req[s].op = "PutMyProducts"
                   /\ req[s].status = 403 /\ cart # {}

\* the owner's DELETE of a product that some cart row references
OwnerDeleteInCart(r) ==
  /\ r.op = "DeleteMyProducts"
  /\ r.auth = "ok"
  /\ \E p \in ProductBefore(r, r.id) : p.seller_id = r.user
  /\ \E c \in r.pre.cart : c.product_id = r.id

\* C2: the owner's DELETE of a product referenced by a cart row leaves the
\* product and every cart row as they were, and is answered 400 whenever the
\* store answered the handler's reads.
C2_DeleteRefusedWhileInCart ==
  \A s \in Slots :
    OwnerDeleteInCart(req[s]) =>
      /\ StoreAsBefore(req[s])
      /\ Done(req[s]) /\ ~req[s].faulted => req[s].status = 400

C2_Witness ==
  \E s \in Slots : /\ OwnerDeleteInCart(req[s]) /\ req[s].status = 400
                   /\ ~req[s].faulted /\ req[s].calls = 2

\* C3: a POST /api/posts answered 201 has added exactly one product, whose
\* seller_id is the caller resolved from the token, whatever seller_id the
\* body carried; and every product of the store has the seller_id of the
\* caller who created it.
C3_SellerIsCaller ==
  /\ \A p \in products : p.seller_id = p.created_by
  /\ \A s \in Slots :
       Done(req[s]) /\ req[s].op = "PostPosts" /\ req[s].status = 201 =>
         \E p \in products : /\ p.id = req[s].id
                             /\ p.seller_id = req[s].user
                             /\ p \notin req[s].pre.products
                             /\ products = req[s].pre.products \cup {p}

\* a product was created by a request whose body named another seller
C3_Witness ==
  \E s \in Slots : /\ Done(req[s]) /\ req[s].op = "PostPosts" /\ req[s].status = 201
                   /\ req[s].body.seller_id # Undefined
                   /\ Val(req[s].body.seller_id) # req[s].user

\* a POST /api/cart by an authenticated caller who has no row for the
\* product, the product existing, active and with stock for the request
AddOfNewItem(r) ==
  /\ r.op = "PostCart" /\ Done(r) /\ r.auth = "ok" /\ ~r.faulted
  /\ r.body.product_id # 0
  /\ CartRowsBefore(r, r.user, r.body.product_id) = {}
  /\ \E p \in ProductBefore(r, r.body.product_id) :
       /\ p.is_active
       /\ p.stock_quantity >= (IF r.body.quantity = Undefined THEN 1
                                ELSE Val(r.body.quantity))

\* C4: such a request, the store answering every call, is answered 201 and
\* adds exactly one cart row, for (caller, product) and with the requested
\* quantity (1 when the body has none); no other row changes.
C4_AddCreatesOneRow ==
  \A s \in Slots :
    AddOfNewItem(req[s]) =>
      /\ req[s].status = 201
      /\ products = req[s].pre.products
      /\ \E c \in cart :
           /\ c \notin req[s].pre.cart
           /\ \A d \in req[s].pre.cart : d.id # c.id
           /\ cart = req[s].pre.cart \cup {c}
           /\ c.user_id = req[s].user
           /\ c.product_id = req[s].body.product_id
           /\ c.quantity = (IF req[s].body.quantity = Undefined THEN 1
                             ELSE Val(req[s].body.quantity))

\* a row was added with the default quantity next to another user's row
C4_Witness ==
  \E s \in Slots : /\ AddOfNewItem(req[s]) /\ req[s].body.quantity = Undefined
                   /\ req[s].pre.cart # {}
                   /\ Cardinality(cart) = Cardinality(req[s].pre.cart) + 1

\* the quantity a POST /api/cart asks for
Requested(r) == IF r.body.quantity = Undefined THEN 1 ELSE Val(r.body.quantity)

\* a POST /api/cart, every call of which the store answered, by a caller who
\* has exactly one row for the product
AddToExisting(r) ==
  /\ r.op = "PostCart" /\ Done(r) /\ r.auth = "ok" /\ ~r.faulted
  /\ r.body.product_id # 0
  /\ Cardinality(CartRowsBefore(r, r.user, r.body.product_id)) = 1

\* the existing row e merged with the request: nothing else changed
Merged(r, e) ==
  /\ r.status = 201
  /\ products = r.pre.products
  /\ cart = (r.pre.cart \ {e}) \cup
             {[e EXCEPT !.quantity = e.quantity + Requested(r), !.added_at = @ + 1]}
\* the request refused with nothing changed
Refused(r) == r.status = 400 /\ StoreAsBefore(r)

RejectedAdd(r) ==
  /\ r.op = "PostCart" /\ r.auth = "ok" /\ r.body.product_id # 0
  /\ \/ ProductBefore(r, r.body.product_id) = {}
     \/ \E p \in ProductBefore(r, r.body.product_id) :
          ~p.is_active \/ p.stock_quantity < Requested(r)

\* C6: a POST /api/cart for a product that does not exist, is not active or
\* has less stock than requested adds no cart row and changes none; it is
\* answered 404 for a missing product and 400 otherwise, whenever the store
\* answered the product read.
C6_RejectedAddChangesNothing ==
  \A s \in Slots :
    RejectedAdd(req[s]) =>
      /\ Done(req[s])
      /\ StoreAsBefore(req[s])
      /\ ~req[s].faulted =>
           req[s].status = IF ProductBefore(req[s], req[s].body.product_id) = {}
                           THEN 404 ELSE 400

\* a request for more than the stock of an active product was refused
C6_Witness ==
  \E s \in Slots :
    /\ RejectedAdd(req[s]) /\ req[s].status = 400 /\ ~req[s].faulted
    /\ \E p \in ProductBefore(req[s], req[s].body.product_id) :
         p.is_active /\ p.stock_quantity = 1 /\ Requested(req[s]) = 2

\* C7: in every guarded handler the guard comes first: a request whose
\* token is missing, or for which the provider returned an error or no
\* user, is answered 401 without a call on the record store, and no guarded
\* handler calls the store before the guard has resolved the caller.
C7_GuardFirst ==
  \A s \in Slots :
    req[s].op \in Guarded =>
      /\ req[s].auth \in {"missing", "error", "nouser"} =>
           /\ Done(req[s]) /\ req[s].status = 401
           /\ req[s].calls = 0 /\ req[s].writes = 0
           /\ StoreAsBefore(req[s])
      /\ req[s].calls > 0 => req[s].auth = "ok" /\ req[s].user \in Users

\* a request was refused because the provider returned no user
C7_Witness ==
  \E s \in Slots : /\ req[s].op \in Guarded /\ req[s].auth = "nouser"
                   /\ req[s].status = 401 /\ products # {}

\* C8: every handler that has stopped has sent a response: no failure of an
\* external call escapes the handler.
C8_AlwaysAnswered ==
  \A s \in Slots : req[s].pc = "escaped" => req[s].status # 0

\* C9: at most one cart row per (user_id, product_id).
C9_OneRowPerPair ==
  \A c, d \in cart :
    c.user_id = d.user_id /\ c.product_id = d.product_id => c = d

\* C10: every cart row's quantity is at least 1.
C10_QuantityPositive == \A c \in cart : c.quantity >= 1

\* request s makes a write on cart_items in this step
CartWrite(s) ==
  /\ req[s].op \in {"PostCart", "PutCart"}
  /\ req'[s].writes = req[s].writes + 1
\* the cart rows that write stores: the row inserted or changed, and the row
\* a PUT /api/cart/:id names
Stored(s) ==
  {c \in cart' : c \notin cart \/ (req[s].op = "PutCart" /\ c.id = req[s].id)}

\* C11: requests being handled one at a time, every write of a cart row (the
\* insert and the merge of POST /api/cart, the update of PUT /api/cart/:id)
\* stores a quantity no larger than the stock_quantity the row's product has
\* at the time of the write.
C11_WriteWithinStock ==
  [][\A s \in Slots :
       CartWrite(s) =>
         /\ Stored(s) # {}
         /\ \A c \in Stored(s) :
              \E p \in products' : /\ p.id = c.product_id
                                   /\ c.quantity <= p.stock_quantity]_vars

\* a PUT /api/cart/:id raised a row to exactly the stock of its product
C11_Witness ==
  \E s \in Slots :
    /\ req[s].op = "PutCart" /\ Done(req[s]) /\ req[s].status = 200
    /\ \E c \in cart, p \in products :
         /\ c.id = req[s].id /\ p.id = c.product_id
         /\ c \notin req[s].pre.cart
         /\ c.quantity = p.stock_quantity /\ c.quantity = MaxStock

\* a PUT /api/my-products/:id that was answered 200
OwnerUpdate(r) == r.op = "PutMyProducts" /\ Done(r) /\ r.status = 200

\* C12: a PUT /api/my-products/:id answered 200 has set the fields its body
\* carries and left every field the body omits, the product's seller_id,
\* every other product and every cart row as they were.
C12_OnlyPresentFieldsChange ==
  \A s \in Slots :
    OwnerUpdate(req[s]) =>
      /\ cart = req[s].pre.cart
      /\ {p \in products : p.id # req[s].id}
           = {q \in req[s].pre.products : q.id # req[s].id}
      /\ Cardinality(ProductBefore(req[s], req[s].id)) = 1
      /\ Cardinality(ProductById(req[s].id)) = 1
      /\ \A q \in ProductBefore(req[s], req[s].id), p \in ProductById(req[s].id) :
           /\ p.seller_id = q.seller_id
           /\ p.created_by = q.created_by
           /\ p.stock_quantity = IF req[s].body.stock_quantity = Undefined
                                 THEN q.stock_quantity
                                 ELSE Val(req[s].body.stock_quantity)
           /\ p.is_active = IF req[s].body.is_active = Undefined
                            THEN q.is_active
                            ELSE Val(req[s].body.is_active)

\* the stock of an inactive product in a cart was changed by a body that
\* carries no is_active
C12_Witness ==
  \E s \in Slots :
    /\ OwnerUpdate(req[s]) /\ cart # {}
    /\ req[s].body.is_active = Undefined
    /\ req[s].body.stock_quantity = {MaxStock}
    /\ \E q \in ProductBefore(req[s], req[s].id) : q.stock_quantity = 1
    /\ \E p \in ProductById(req[s].id) : ~p.is_active /\ p.stock_quantity = MaxStock

\* the handlers of /api/cart that write
CartOps == {"PostCart", "PutCart", "DeleteCartItem", "DeleteCart"}
\* the cart rows of the users other than u
RowsOfOthers(rows, u) == {c \in rows : c.user_id # u}
\* a PUT or DELETE on /api/cart/:id naming an id under which the caller has
\* no row: no such row exists, or it is another user's
NotOwnItem(r) ==
  /\ r.op \in {"PutCart", "DeleteCartItem"}
  /\ r.auth = "ok" /\ r.id # 0
  /\ \A c \in r.pre.cart : c.id = r.id => c.user_id # r.user

C17_CartRefersToProduct ==
  \A c \in cart : \E p \in products : p.id = c.product_id

\* a product was deleted after the cart rows that referred to it were removed
C17_Witness ==
  \E s \in Slots :
    /\ req[s].op = "DeleteMyProducts" /\ Done(req[s]) /\ req[s].status = 200
    /\ req[s].writes = 1 /\ nextCartId > 1 /\ cart = {}

\* a POST /api/cart answered 201, every call of which the store answered
Added(r) == r.op = "PostCart" /\ Done(r) /\ r.status = 201 /\ ~r.faulted
\* two such requests of one user for one product, in different slots, each
\* of which found no single row to merge into
BothInserted(s, t) ==
  /\ s # t /\ Added(req[s]) /\ Added(req[t])
  /\ req[s].user = req[t].user /\ req[s].id = req[t].id
  /\ req[s].existing = {} /\ req[t].existing = {}

RECURSIVE SumQuantity(_)
\* the summed quantity of a set of cart rows
SumQuantity(rows) ==
  IF rows = {} THEN 0
  ELSE LET c == CHOOSE d \in rows : TRUE
       IN c.quantity + SumQuantity(rows \ {c})

\* C14: with the steps of the handlers interleaving, two POST /api/cart
\* requests of one user for one product that both found no row to merge into
\* have both inserted: the cart then holds at least two rows for the pair
\* (user_id, product_id).  The witness is the state the claim describes: both
\* requests saw no row at all and the cart holds their two rows.
C14_BothInsert ==
  \A s, t \in Slots :
    BothInserted(s, t) =>
      Cardinality(CartRowsOf(req[s].user, req[s].id)) >= 2

\* the only two inserts ever made were made by two requests in flight
\* together, for the same user and product
C14_Witness ==
  \E s, t \in Slots :
    /\ BothInserted(s, t)
    /\ nextCartId = 3
    /\ Cardinality(CartRowsOf(req[s].user, req[s].id)) = 2
    /\ req[s].pre.cart = {} /\ req[t].pre.cart = {}

\* C15: the stock is compared at the handler's reads only.  Every POST
\* /api/cart answered 201 asked for no more than the stock_quantity it read,
\* merged only into a row it read as leaving room for the request, and the
\* product it read is in the store unchanged; what the cart holds for the
\* pair when the write lands is not compared.  The witness is the state the
\* claim describes: two interleaved requests, each within stock, leave the
\* user with more of the product than its stock_quantity.
C15_CheckedAtReadOnly ==
  \A s \in Slots :
    req[s].op = "PostCart" /\ Done(req[s]) /\ req[s].status = 201 =>
      \A p \in req[s].product :
        /\ p \in products
        /\ req[s].quantity <= p.stock_quantity
        /\ \A e \in req[s].existing :
             e.quantity + req[s].quantity <= p.stock_quantity

\* two interleaved inserts, each within stock, together above the stock
C15_Witness ==
  \E s, t \in Slots :
    /\ BothInserted(s, t)
    /\ nextCartId = 3
    /\ req[s].pre.cart = {} /\ req[t].pre.cart = {}
    /\ \E p \in products :
         /\ p.id = req[s].id /\ p \in req[s].pre.products
         /\ p \in req[t].pre.products
         /\ req[s].quantity >= 1 /\ req[s].quantity <= p.stock_quantity
         /\ req[t].quantity >= 1 /\ req[t].quantity <= p.stock_quantity
         /\ SumQuantity(CartRowsOf(req[s].user, p.id)) > p.stock_quantity

\* a POST /api/cart that arrived when the caller had two or more rows for
\* the product
AddToDuplicates(r) ==
  /\ r.op = "PostCart" /\ r.auth = "ok" /\ r.id # 0
  /\ Cardinality(CartRowsBefore(r, r.user, r.id)) >= 2

\* C16: a POST /api/cart that arrives when two or more rows exist for
\* (caller, product) never merges: answered 201, it has taken the insert
\* branch and added a row.  No POST /api/cart lowers the number of rows of
\* its pair.  (The witness: the summed quantity of the pair above the
\* product's stock_quantity after such an insert.)
C16_DuplicatesOnlyGrow ==
  \A s \in Slots :
    /\ AddToDuplicates(req[s]) =>
         /\ req[s].existing = {}
         /\ Done(req[s]) /\ req[s].status = 201 =>
              /\ req[s].writes = 1
              /\ Cardinality(CartRowsOf(req[s].user, req[s].id))
                   > Cardinality(CartRowsBefore(req[s], req[s].user, req[s].id))
    /\ req[s].op = "PostCart" /\ req[s].auth = "ok" /\ req[s].id # 0 =>
         Cardinality(CartRowsOf(req[s].user, req[s].id))
           >= Cardinality(CartRowsBefore(req[s], req[s].user, req[s].id))

\* a third row was inserted next to two, the three together above the stock
C16_Witness ==
  \E s \in Slots :
    /\ AddToDuplicates(req[s]) /\ Done(req[s]) /\ req[s].status = 201
    /\ ~req[s].faulted
    /\ Cardinality(CartRowsOf(req[s].user, req[s].id)) = 3
    /\ \E p \in products :
         /\ p.id = req[s].id
         /\ SumQuantity(CartRowsOf(req[s].user, p.id)) > p.stock_quantity
====
